---- MODULE Spec2Model ----
(***************************************************************************)
(* String Analyzer API: the analyzer (app/utils.py), the storage           *)
(* operations (app/crud.py over the table of app/models.py), the filter    *)
(* evaluator (crud.filter_strings) and the natural-language query parser   *)
(* (app/filters.py), with the routes of app/main.py that call them.        *)
(*                                                                         *)
(* A string is a sequence of one-character strings, so that trimming,      *)
(* lowercasing, splitting and pattern matching are computed character by   *)
(* character as the Python code computes them.                             *)
(***************************************************************************)
EXTENDS Integers, Sequences, FiniteSets, Bags, TLC

VARIABLES
    records,    \* the rows of table "strings", a bag of rows
    pc,         \* pc[p]: where session p's request handler stands
    req,        \* req[p]: the request session p serves or served last
    obj,        \* obj[p]: the ORM object session p holds (pending insert or delete)
    status,     \* status[p]: HTTP status of p's last response, 0 while none
    flt,        \* the filter_strings call under test and its outcome
    nl,         \* the natural-language request under test and its outcome
    an          \* the analyze_string call under test and its outcome

vars == <<records, pc, req, obj, status, flt, nl, an>>

\* Optional[T]: None is the empty sequence, a value v the one-element sequence
Absent == <<>>
Some(v) == <<v>>

----------------------------------------------------------------------------
(* Characters and the str methods the code uses                            *)

LOWER == <<"a", "b", "c", "d", "e", "f", "g", "h", "i", "j", "k", "l", "m", "n", "o", "p", "q", "r", "s", "t", "u", "v", "w", "x", "y", "z">>
UPPER == <<"A", "B", "C", "D", "E", "F", "G", "H", "I", "J", "K", "L", "M", "N", "O", "P", "Q", "R", "S", "T", "U", "V", "W", "X", "Y", "Z">>
DIGITS == <<"0", "1", "2", "3", "4", "5", "6", "7", "8", "9">>

Range(s) == {s[i] : i \in 1..Len(s)}

IndexOf(c, s) == CHOOSE i \in 1..Len(s) : s[i] = c

\* str.isspace of one character: what strip() and split() treat as whitespace
IsSpace(c) == c \in {" ", "\t", "\n"}

\* regex class \d
IsDigit(c) == c \in Range(DIGITS)

\* regex class [a-zA-Z]
IsLetter(c) == c \in Range(LOWER) \cup Range(UPPER)

\* regex class [a-z0-9], used on the lowercased string
IsAlnumLower(c) == c \in Range(LOWER) \cup Range(DIGITS)

\* str.lower of one character
LowerChar(c) == IF c \in Range(UPPER) THEN LOWER[IndexOf(c, UPPER)] ELSE c

\* str.lower
lower(s) == [i \in 1..Len(s) |-> LowerChar(s[i])]

\* the code point of a character (ASCII)
Ord(c) ==
    IF c \in Range(LOWER) THEN 96 + IndexOf(c, LOWER)
    ELSE IF c \in Range(UPPER) THEN 64 + IndexOf(c, UPPER)
    ELSE IF c \in Range(DIGITS) THEN 47 + IndexOf(c, DIGITS)
    ELSE CASE c = "\t" -> 9 [] c = "\n" -> 10 [] c = " " -> 32 [] c = "!" -> 33
           [] c = "%" -> 37 [] c = "," -> 44 [] c = "-" -> 45 [] c = "\\" -> 92
           [] c = "_" -> 95 [] OTHER -> 63

RECURSIVE lstrip(_)
lstrip(s) == IF s # <<>> /\ IsSpace(Head(s)) THEN lstrip(Tail(s)) ELSE s

RECURSIVE rstrip(_)
rstrip(s) ==
    IF s # <<>> /\ IsSpace(s[Len(s)]) THEN rstrip(SubSeq(s, 1, Len(s) - 1)) ELSE s

\* str.strip()
strip(s) == rstrip(lstrip(s))

\* s[::-1]
reversed(s) == [i \in 1..Len(s) |-> s[Len(s) + 1 - i]]

\* the end of the run of non-whitespace characters that starts at i
RECURSIVE WordEnd(_, _)
WordEnd(s, i) == IF i < Len(s) /\ ~IsSpace(s[i + 1]) THEN WordEnd(s, i + 1) ELSE i

\* str.split() with no separator: the maximal runs of non-whitespace characters
RECURSIVE SplitFrom(_, _)
SplitFrom(s, i) ==
    IF i > Len(s) THEN <<>>
    ELSE IF IsSpace(s[i]) THEN SplitFrom(s, i + 1)
    ELSE <<SubSeq(s, i, WordEnd(s, i))>> \o SplitFrom(s, WordEnd(s, i) + 1)

split(s) == SplitFrom(s, 1)

----------------------------------------------------------------------------
(* app/utils.py                                                            *)

\* value.encode('utf-8'): the bytes of an ASCII string
encode_utf8(s) == [i \in 1..Len(s) |-> Ord(s[i])]

\* hashlib.sha256(bytes).hexdigest(): the digest is modelled as a
\* collision-free tag of the hashed bytes
sha256_hexdigest(bytes) == [sha256 |-> bytes]

\* dict(Counter(value_clean))
Counter(s) == [c \in Range(s) |-> Cardinality({i \in 1..Len(s) : s[i] = c})]

\* analyze_string without the test for an empty alphanumeric form
analyze_string_unguarded(value) ==
    LET value_clean == strip(value)
        lower_value == lower(value_clean)
        alphanumeric == SelectSeq(lower_value, IsAlnumLower)
    IN  [ length |-> Len(value_clean),
          is_palindrome |-> alphanumeric = reversed(alphanumeric),
          unique_characters |-> Cardinality(Range(value_clean)),
          word_count |-> IF value_clean # <<>> THEN Len(split(value_clean)) ELSE 0,
          sha256_hash |-> sha256_hexdigest(encode_utf8(value_clean)),
          character_frequency_map |-> Counter(value_clean) ]

\* analyze_string
analyze_string(value) ==
    LET value_clean == strip(value)
        lower_value == lower(value_clean)
        alphanumeric == SelectSeq(lower_value, IsAlnumLower)
    IN  [ length |-> Len(value_clean),
          is_palindrome |->
              IF alphanumeric # <<>> THEN alphanumeric = reversed(alphanumeric) ELSE FALSE,
          unique_characters |-> Cardinality(Range(value_clean)),
          word_count |-> IF value_clean # <<>> THEN Len(split(value_clean)) ELSE 0,
          sha256_hash |-> sha256_hexdigest(encode_utf8(value_clean)),
          character_frequency_map |-> Counter(value_clean) ]

----------------------------------------------------------------------------
(* app/models.py: table "strings"                                          *)

Rows(table) == BagToSet(table)

\* the primary key on id and the unique constraints on value and sha256_hash
UniqueViolation(table, row) ==
    \E r \in Rows(table) :
        r.id = row.id \/ r.value = row.value \/ r.sha256_hash = row.sha256_hash

\* an INSERT without the constraints: every row is accepted
InsertUnconstrained(table, row) == [ok |-> TRUE, table |-> table (+) SetToBag({row})]

\* INSERT INTO strings at commit: refused (IntegrityError) when a constraint is violated
Insert(table, row) ==
    IF UniqueViolation(table, row)
    THEN [ok |-> FALSE, table |-> table]
    ELSE [ok |-> TRUE, table |-> table (+) SetToBag({row})]

\* DELETE FROM strings WHERE id = :id
Delete(table, row) ==
    LET hit == {r \in Rows(table) : r.id = row.id}
    IN  [r \in Rows(table) \ hit |-> CopiesIn(r, table)]

\* no row (Python's None where a row is expected)
NoRow == [absent |-> TRUE]

\* MultipleResultsFound, raised by scalar_one_or_none()
MultipleRows == [multiple |-> TRUE]

\* result.scalar_one_or_none() of a SELECT: the row, no row, or
\* MultipleResultsFound when several rows match
scalar_one_or_none(table, hit) ==
    LET n == Cardinality(hit)
        copies == IF n = 1 THEN CopiesIn(CHOOSE r \in hit : TRUE, table) ELSE 0
    IN  IF n = 0 THEN NoRow
        ELSE IF n = 1 /\ copies = 1 THEN CHOOSE r \in hit : TRUE
        ELSE MultipleRows

----------------------------------------------------------------------------
(* app/crud.py: storage operations                                         *)

get_string_by_sha256(table, sha256_hash) ==
    scalar_one_or_none(table, {r \in Rows(table) : r.sha256_hash = sha256_hash})

\* the lookup of delete_string_by_value with the stripped value compared
SelectByStrippedValue(table, value) ==
    scalar_one_or_none(table, {r \in Rows(table) : r.value = strip(value)})

\* SELECT ... WHERE value = :value
SelectByValue(table, value) ==
    scalar_one_or_none(table, {r \in Rows(table) : r.value = value})

\* the check with the value not stripped
InvalidInputUnstripped(value) == value = <<>>

\* not string_data.value.strip()
InvalidInput(value) == strip(value) = <<>>

\* the new row built from the value as sent, not stripped
NewAnalyzedStringRaw(raw) ==
    LET analysis == analyze_string(raw)
    IN  [ id |-> analysis.sha256_hash,
          value |-> raw,
          length |-> analysis.length,
          is_palindrome |-> analysis.is_palindrome,
          unique_characters |-> analysis.unique_characters,
          word_count |-> analysis.word_count,
          sha256_hash |-> analysis.sha256_hash,
          character_frequency_map |-> analysis.character_frequency_map ]

\* value = string_data.value.strip(); analysis = analyze_string(value);
\* new_string = AnalyzedString(...)
NewAnalyzedString(raw) ==
    LET value == strip(raw)
        analysis == analyze_string(value)
    IN  [ id |-> analysis.sha256_hash,
          value |-> value,
          length |-> analysis.length,
          is_palindrome |-> analysis.is_palindrome,
          unique_characters |-> analysis.unique_characters,
          word_count |-> analysis.word_count,
          sha256_hash |-> analysis.sha256_hash,
          character_frequency_map |-> analysis.character_frequency_map ]

----------------------------------------------------------------------------
(* app/crud.py: filter_strings                                             *)

DefaultLimit == 100
DefaultOffset == 0

\* PostgreSQL LIKE: "%" matches any run of characters, "_" any one character,
\* and a backslash takes the next pattern character literally
RECURSIVE Like(_, _)
Like(pattern, s) ==
    IF pattern = <<>> THEN s = <<>>
    ELSE IF pattern[1] = "%"
         THEN Like(Tail(pattern), s) \/ (s # <<>> /\ Like(pattern, Tail(s)))
    ELSE IF pattern[1] = "_"
         THEN s # <<>> /\ Like(Tail(pattern), Tail(s))
    ELSE IF pattern[1] = "\\"
         THEN /\ Len(pattern) >= 2
              /\ s # <<>> /\ s[1] = pattern[2]
              /\ Like(SubSeq(pattern, 3, Len(pattern)), Tail(s))
    ELSE s # <<>> /\ s[1] = pattern[1] /\ Like(Tail(pattern), Tail(s))

\* column.ilike(pattern): LIKE with case ignored
ilike(value, pattern) == Like(lower(pattern), lower(value))

FilterKeys == {"is_palindrome", "min_length", "max_length", "word_count", "contains_character"}

\* a call with every filter None
NoParams == [k \in FilterKeys |-> Absent]

\* the validation at the head of filter_strings: TRUE when it raises 400
FilterRejected(f) ==
    \/ f["min_length"] # Absent /\ f["min_length"][1] < 0
    \/ f["max_length"] # Absent /\ f["max_length"][1] < 0
    \/ f["word_count"] # Absent /\ f["word_count"][1] < 0
    \/ /\ f["contains_character"] # Absent
       /\ f["contains_character"][1] # <<>>           \* truthiness of the string
       /\ Len(f["contains_character"][1]) # 1

\* and_(*filters): the WHERE clause built from the filters that are not None
FilterMatches(f, r) ==
    /\ f["is_palindrome"] # Absent => r.is_palindrome = f["is_palindrome"][1]
    /\ f["min_length"] # Absent => r.length >= f["min_length"][1]
    /\ f["max_length"] # Absent => r.length <= f["max_length"][1]
    /\ f["word_count"] # Absent => r.word_count = f["word_count"][1]
    /\ f["contains_character"] # Absent
           => ilike(r.value, <<"%">> \o f["contains_character"][1] \o <<"%">>)

\* query.offset(offset).limit(limit) with no ORDER BY: any rows of the right number
Pages(matching, offset, limit) ==
    LET n == Cardinality(matching)
        left == IF n > offset THEN n - offset ELSE 0
        size == IF left < limit THEN left ELSE limit
    IN  {page \in SUBSET matching : Cardinality(page) = size}

\* {k: v for k, v in filters_applied.items() if v is not None}
FiltersApplied(f, limit, offset) ==
    [k \in {k \in FilterKeys : f[k] # Absent} \cup {"limit", "offset"} |->
        IF k = "limit" THEN limit ELSE IF k = "offset" THEN offset ELSE f[k][1]]

\* the outcomes of filter_strings(db, ...) with the default limit and offset
filter_strings(table, f) ==
    IF FilterRejected(f)
    THEN {[status |-> 400, data |-> {}, filters_applied |-> <<>>]}
    ELSE {[status |-> 200, data |-> page,
           filters_applied |-> FiltersApplied(f, DefaultLimit, DefaultOffset)] :
             page \in Pages({r \in Rows(table) : FilterMatches(f, r)},
                            DefaultOffset, DefaultLimit)}

\* no filter_strings call made
NoFilterCall == [params |-> NoParams, status |-> 0, data |-> {}, filters_applied |-> <<>>]

\* no analyze_string call made
NoAnalysis == [value |-> <<>>, done |-> FALSE, properties |-> <<>>]

\* no natural-language request made
NoQuery == [query |-> <<>>, status |-> 0, parsed_filters |-> <<>>, data |-> {}]

----------------------------------------------------------------------------
(* Requests                                                                *)

NumSessions == 2

\* the request-scoped sessions that serve create and delete requests
Sessions == 1..NumSessions

\* the values POST /strings is sent: empty, blank, plain, the same padded
\* with whitespace, and a mixed-case palindrome of two words
CreateValues ==
    { <<>>, <<" ">>, <<"a", "b", "c">>, <<" ", "a", "b", "c", "\t">>,
      <<"A", "b", " ", "a">> }

\* the path segments DELETE /strings/{value} is sent; the route matches a
\* non-empty segment only
PathValues ==
    { <<" ">>, <<"a", "b", "c">>, <<" ", "a", "b", "c", "\t">>,
      <<"A", "b", " ", "a">> }

NoRequest == [op |-> "none", value |-> <<>>]

\* the table as init_models leaves it, and no request in any session
InitStore ==
    /\ records = EmptyBag
    /\ pc = [p \in Sessions |-> "idle"]
    /\ req = [p \in Sessions |-> NoRequest]
    /\ obj = [p \in Sessions |-> NoRow]
    /\ status = [p \in Sessions |-> 0]

Init ==
    /\ InitStore
    /\ flt = NoFilterCall
    /\ nl = NoQuery
    /\ an = NoAnalysis

\* the handler raises HTTPException(code): the response is sent, the session closed
Respond(p, code) ==
    /\ status' = [status EXCEPT ![p] = code]
    /\ pc' = [pc EXCEPT ![p] = "idle"]
    /\ obj' = [obj EXCEPT ![p] = NoRow]

\* POST /strings, create_analyzed_string up to db.add(new_string): the
\* validation, the duplicate lookup (the first await) and the pending insert
CreateBegin(p, raw) ==
    /\ pc[p] = "idle"
    /\ req' = [req EXCEPT ![p] = [op |-> "create", value |-> raw]]
    /\ IF InvalidInput(raw) THEN Respond(p, 422)
       ELSE LET new_string == NewAnalyzedString(raw)
                existing == get_string_by_sha256(records, new_string.sha256_hash)
            IN  IF existing = MultipleRows THEN Respond(p, 500)
                ELSE IF existing # NoRow THEN Respond(p, 409)
                ELSE /\ obj' = [obj EXCEPT ![p] = new_string]
                     /\ pc' = [pc EXCEPT ![p] = "commit"]
                     /\ status' = [status EXCEPT ![p] = 0]
    /\ UNCHANGED <<records, flt, nl, an>>

\* await db.commit(): the INSERT is flushed and committed; an IntegrityError is
\* caught by "except Exception", rolled back and answered with 500
CreateCommit(p) ==
    /\ pc[p] = "commit"
    /\ LET done == Insert(records, obj[p])
       IN  IF done.ok
           THEN /\ records' = done.table
                /\ pc' = [pc EXCEPT ![p] = "refresh"]
                /\ UNCHANGED <<obj, status>>
           ELSE /\ records' = records
                /\ Respond(p, 500)
    /\ UNCHANGED <<req, flt, nl, an>>

\* await db.refresh(new_string): the row is read back by primary key; when it
\* is gone the refresh raises, which "except Exception" answers with 500
CreateRefresh(p) ==
    /\ pc[p] = "refresh"
    /\ IF \E r \in Rows(records) : r.id = obj[p].id
       THEN Respond(p, 201)
       ELSE Respond(p, 500)
    /\ UNCHANGED <<records, req, flt, nl, an>>

\* DELETE /strings/{value}, delete_string_by_value up to the lookup
DeleteBegin(p, value) ==
    /\ pc[p] = "idle"
    /\ req' = [req EXCEPT ![p] = [op |-> "delete", value |-> value]]
    /\ IF value = <<>> THEN Respond(p, 400)
       ELSE LET string == SelectByValue(records, value)
            IN  IF string = MultipleRows THEN Respond(p, 500)
                ELSE IF string = NoRow THEN Respond(p, 404)
                ELSE /\ obj' = [obj EXCEPT ![p] = string]
                     /\ pc' = [pc EXCEPT ![p] = "delete"]
                     /\ status' = [status EXCEPT ![p] = 0]
    /\ UNCHANGED <<records, flt, nl, an>>

\* await db.delete(string); await db.commit(): the DELETE by primary key; a
\* row already gone matches nothing, which the ORM only warns about
DeleteCommit(p) ==
    /\ pc[p] = "delete"
    /\ records' = Delete(records, obj[p])
    /\ Respond(p, 204)
    /\ UNCHANGED <<req, flt, nl, an>>

Next ==
    \E p \in Sessions :
        \/ \E raw \in CreateValues : CreateBegin(p, raw)
        \/ CreateCommit(p)
        \/ CreateRefresh(p)
        \/ \E value \in PathValues : DeleteBegin(p, value)
        \/ DeleteCommit(p)

Spec == Init /\ [][Next]_vars

----------------------------------------------------------------------------
(* filter_strings over a table that one session fills and empties          *)

\* the values created under SpecFilter: plain, one holding "_", and one of
\* two words with "b" in both cases
FilterCreateValues ==
    { <<"a", "b", "c">>, <<"a", "_", "c">>, <<"B", " ", "b">> }

FilterPathValues == { <<"a", "b", "c">> }

\* the arguments filter_strings is called with: each Optional parameter None,
\* in range or out of range; contains_character also empty, a LIKE wildcard
\* and two characters long
FilterParams ==
    { [ is_palindrome |-> ip, min_length |-> lo, max_length |-> hi,
        word_count |-> wc, contains_character |-> cc ] :
        ip \in {Absent, Some(TRUE)},
        lo \in {Absent, Some(-1), Some(3)},
        hi \in {Absent, Some(-1), Some(3)},
        wc \in {Absent, Some(-1), Some(2)},
        cc \in { Absent, Some(<<>>), Some(<<"b">>), Some(<<"C">>), Some(<<"_">>),
                 Some(<<"%">>), Some(<<"a", "b">>) } }

\* the call under test is fixed at the start
InitFilter ==
    /\ InitStore
    /\ flt \in {[NoFilterCall EXCEPT !.params = f] : f \in FilterParams}
    /\ nl = NoQuery
    /\ an = NoAnalysis

\* await filter_strings(db, ...): validation, the query, the result
FilterStrings ==
    /\ flt.status = 0
    /\ \E out \in filter_strings(records, flt.params) :
           flt' = [ params |-> flt.params, status |-> out.status, data |-> out.data,
                    filters_applied |-> out.filters_applied ]
    /\ UNCHANGED <<records, pc, req, obj, status, nl, an>>

\* the caller has taken the result; the same call may be made again
FilterReturn ==
    /\ flt.status # 0
    /\ flt' = [NoFilterCall EXCEPT !.params = flt.params]
    /\ UNCHANGED <<records, pc, req, obj, status, nl, an>>

NextFilter ==
    \/ \E raw \in FilterCreateValues : CreateBegin(1, raw)
    \/ CreateCommit(1)
    \/ CreateRefresh(1)
    \/ \E value \in FilterPathValues : DeleteBegin(1, value)
    \/ DeleteCommit(1)
    \/ FilterStrings
    \/ FilterReturn

SpecFilter == InitFilter /\ [][NextFilter]_vars

----------------------------------------------------------------------------
(* app/filters.py                                                          *)

\* NUMBER_WORDS: the pairs (word, number)
NUMBER_WORDS ==
    {
      <<<<"z", "e", "r", "o">>, 0>>, <<<<"o", "n", "e">>, 1>>,
      <<<<"t", "w", "o">>, 2>>, <<<<"t", "h", "r", "e", "e">>, 3>>,
      <<<<"f", "o", "u", "r">>, 4>>, <<<<"f", "i", "v", "e">>, 5>>,
      <<<<"s", "i", "x">>, 6>>, <<<<"s", "e", "v", "e", "n">>, 7>>,
      <<<<"e", "i", "g", "h", "t">>, 8>>, <<<<"n", "i", "n", "e">>, 9>>,
      <<<<"t", "e", "n">>, 10>>, <<<<"e", "l", "e", "v", "e", "n">>, 11>>,
      <<<<"t", "w", "e", "l", "v", "e">>, 12>>, <<<<"t", "h", "i", "r", "t", "e", "e", "n">>, 13>>,
      <<<<"f", "o", "u", "r", "t", "e", "e", "n">>, 14>>, <<<<"f", "i", "f", "t", "e", "e", "n">>, 15>>,
      <<<<"s", "i", "x", "t", "e", "e", "n">>, 16>>, <<<<"s", "e", "v", "e", "n", "t", "e", "e", "n">>, 17>>,
      <<<<"e", "i", "g", "h", "t", "e", "e", "n">>, 18>>, <<<<"n", "i", "n", "e", "t", "e", "e", "n">>, 19>>,
      <<<<"t", "w", "e", "n", "t", "y">>, 20>>, <<<<"t", "h", "i", "r", "t", "y">>, 30>>,
      <<<<"f", "o", "r", "t", "y">>, 40>>, <<<<"f", "i", "f", "t", "y">>, 50>>,
      <<<<"s", "i", "x", "t", "y">>, 60>>, <<<<"s", "e", "v", "e", "n", "t", "y">>, 70>>,
      <<<<"e", "i", "g", "h", "t", "y">>, 80>>, <<<<"n", "i", "n", "e", "t", "y">>, 90>>,
      <<<<"h", "u", "n", "d", "r", "e", "d">>, 100>>, <<<<"t", "h", "o", "u", "s", "a", "n", "d">>, 1000>>
    }

IsNumberWord(w) == \E e \in NUMBER_WORDS : e[1] = w

NumberOfWord(w) == (CHOOSE e \in NUMBER_WORDS : e[1] = w)[2]

\* the alternatives of the second branch of PATTERNS['word_count'], in order
WORD_COUNT_WORDS ==
    <<
      <<"s", "i", "n", "g", "l", "e">>, <<"o", "n", "e">>, <<"t", "w", "o">>,
      <<"t", "h", "r", "e", "e">>, <<"f", "o", "u", "r">>, <<"f", "i", "v", "e">>,
      <<"s", "i", "x">>, <<"s", "e", "v", "e", "n">>, <<"e", "i", "g", "h", "t">>,
      <<"n", "i", "n", "e">>, <<"t", "e", "n">>, <<"e", "l", "e", "v", "e", "n">>,
      <<"t", "w", "e", "l", "v", "e">>, <<"t", "h", "i", "r", "t", "e", "e", "n">>, <<"f", "o", "u", "r", "t", "e", "e", "n">>,
      <<"f", "i", "f", "t", "e", "e", "n">>, <<"s", "i", "x", "t", "e", "e", "n">>, <<"s", "e", "v", "e", "n", "t", "e", "e", "n">>,
      <<"e", "i", "g", "h", "t", "e", "e", "n">>, <<"n", "i", "n", "e", "t", "e", "e", "n">>, <<"t", "w", "e", "n", "t", "y">>
    >>

\* a regex match: the span of group(0) and the span of group(1); NoMatch is None
NoMatch == [start |-> 0, end |-> 0, g1 |-> <<>>]

Match(s, i, j, g) == [start |-> i, end |-> j, g1 |-> g]

\* the literal w stands in s at position i
LitAt(s, i, w) == i + Len(w) - 1 <= Len(s) /\ SubSeq(s, i, i + Len(w) - 1) = w

\* \s* from position i, greedy: the first position past the whitespace
RECURSIVE SkipSpaces(_, _)
SkipSpaces(s, i) == IF i <= Len(s) /\ IsSpace(s[i]) THEN SkipSpaces(s, i + 1) ELSE i

\* \d* from position i, greedy: the first position past the digits
RECURSIVE SkipDigits(_, _)
SkipDigits(s, i) == IF i <= Len(s) /\ IsDigit(s[i]) THEN SkipDigits(s, i + 1) ELSE i

\* int() of a string of digits
RECURSIVE int(_)
int(d) ==
    IF d = <<>> THEN 0
    ELSE 10 * int(SubSeq(d, 1, Len(d) - 1)) + (IndexOf(d[Len(d)], DIGITS) - 1)

\* the least element of a set of positions
Leftmost(hits) == CHOOSE i \in hits : \A j \in hits : i <= j

\* of the matches m[i] tried at each position i, the one re.search returns:
\* the match at the leftmost position that has one
LeftmostMatch(m) ==
    IF \A i \in DOMAIN m : m[i] = NoMatch THEN NoMatch
    ELSE m[Leftmost({i \in DOMAIN m : m[i] # NoMatch})]

\* the end of the first of the literals ws (tried in order) that stands at i
\* and is followed by whitespace, 0 when none does: (?:w1|w2|...)\s+
KeywordThenSpace(s, i, ws) ==
    LET ok == {k \in 1..Len(ws) :
                  /\ LitAt(s, i, ws[k])
                  /\ i + Len(ws[k]) <= Len(s)
                  /\ IsSpace(s[i + Len(ws[k])])}
    IN  IF ok = {} THEN 0
        ELSE i + Len(ws[CHOOSE k \in ok : \A k2 \in ok : k <= k2]) - 1

\* PATTERNS['palindrome']: (palindromic|palindrome)
palindrome_at(s, i) ==
    IF LitAt(s, i, <<"p", "a", "l", "i", "n", "d", "r", "o", "m", "i", "c">>) THEN Match(s, i, i + 10, <<>>)
    ELSE IF LitAt(s, i, <<"p", "a", "l", "i", "n", "d", "r", "o", "m", "e">>) THEN Match(s, i, i + 9, <<>>)
    ELSE NoMatch

\* PATTERNS['word_count'], first branch: (\d+)\s*(?:word|words?)
word_count_digits_at(s, i) ==
    LET d == SkipDigits(s, i)
        w == SkipSpaces(s, d)
    IN  IF d > i /\ LitAt(s, w, <<"w", "o", "r", "d">>)
        THEN Match(s, i, w + 3, SubSeq(s, i, d - 1))
        ELSE NoMatch

\* PATTERNS['word_count'], second branch: (?:single|one|...|twenty)\s+words?
word_count_words_at(s, i) ==
    LET k == KeywordThenSpace(s, i, WORD_COUNT_WORDS)
        w == SkipSpaces(s, k + 1)
    IN  IF k > 0 /\ LitAt(s, w, <<"w", "o", "r", "d">>)
        THEN Match(s, i, IF LitAt(s, w + 4, <<"s">>) THEN w + 4 ELSE w + 3, <<>>)
        ELSE NoMatch

\* PATTERNS['word_count']: the first branch is tried before the second
word_count_at(s, i) ==
    IF word_count_digits_at(s, i) # NoMatch THEN word_count_digits_at(s, i)
    ELSE word_count_words_at(s, i)

\* (?:k1|k2|...)\s+than\s+(\d+)
than_number_at(s, i, keywords) ==
    LET k == KeywordThenSpace(s, i, keywords)
        t == SkipSpaces(s, k + 1)
        n == SkipSpaces(s, t + 4)
        d == SkipDigits(s, n)
    IN  IF k > 0 /\ LitAt(s, t, <<"t", "h", "a", "n">>) /\ n > t + 4 /\ d > n
        THEN Match(s, i, d - 1, SubSeq(s, n, d - 1))
        ELSE NoMatch

\* PATTERNS['length_gt']: (?:longer|greater|more)\s+than\s+(\d+)
length_gt_at(s, i) ==
    than_number_at(s, i, <<<<"l", "o", "n", "g", "e", "r">>, <<"g", "r", "e", "a", "t", "e", "r">>, <<"m", "o", "r", "e">>>>)

\* PATTERNS['length_lt']: (?:shorter|less)\s+than\s+(\d+)
length_lt_at(s, i) ==
    than_number_at(s, i, <<<<"s", "h", "o", "r", "t", "e", "r">>, <<"l", "e", "s", "s">>>>)

\* PATTERNS['length_eq']: (?:exactly|precisely|of)\s+(\d+)\s+(?:characters?|letters?)
length_eq_at(s, i) ==
    LET k == KeywordThenSpace(s, i, <<<<"e", "x", "a", "c", "t", "l", "y">>, <<"p", "r", "e", "c", "i", "s", "e", "l", "y">>, <<"o", "f">>>>)
        n == SkipSpaces(s, k + 1)
        d == SkipDigits(s, n)
        u == SkipSpaces(s, d)
        unit == IF LitAt(s, u, <<"c", "h", "a", "r", "a", "c", "t", "e", "r">>) THEN 9
                ELSE IF LitAt(s, u, <<"l", "e", "t", "t", "e", "r">>) THEN 6 ELSE 0
    IN  IF k > 0 /\ d > n /\ u > d /\ unit > 0
        THEN Match(s, i, IF LitAt(s, u + unit, <<"s">>) THEN u + unit ELSE u + unit - 1,
                   SubSeq(s, n, d - 1))
        ELSE NoMatch

\* (?:the\s+)?(?:letter\s+)?([a-zA-Z]) from position i: the position of the
\* letter captured, 0 when none; an optional group is taken first and given
\* up when the rest does not match
RECURSIVE OptionalThenLetter(_, _, _)
OptionalThenLetter(s, i, optional) ==
    IF optional = <<>> THEN (IF i <= Len(s) /\ IsLetter(s[i]) THEN i ELSE 0)
    ELSE LET e == KeywordThenSpace(s, i, <<Head(optional)>>)
             taken == IF e > 0
                      THEN OptionalThenLetter(s, SkipSpaces(s, e + 1), Tail(optional))
                      ELSE 0
         IN  IF taken > 0 THEN taken ELSE OptionalThenLetter(s, i, Tail(optional))

\* PATTERNS['contains_char']:
\* (?:containing?|with|that has|having|includes?)\s+(?:the\s+)?(?:letter\s+)?([a-zA-Z])
contains_char_at(s, i) ==
    LET k == KeywordThenSpace(s, i,
                 <<<<"c", "o", "n", "t", "a", "i", "n", "i", "n", "g">>, <<"c", "o", "n", "t", "a", "i", "n", "i", "n">>, <<"w", "i", "t", "h">>, <<"t", "h", "a", "t", " ", "h", "a", "s">>, <<"h", "a", "v", "i", "n", "g">>, <<"i", "n", "c", "l", "u", "d", "e", "s">>, <<"i", "n", "c", "l", "u", "d", "e">>>>)
        c == IF k > 0
             THEN OptionalThenLetter(s, SkipSpaces(s, k + 1), <<<<"t", "h", "e">>, <<"l", "e", "t", "t", "e", "r">>>>)
             ELSE 0
    IN  IF c > 0 THEN Match(s, i, c, <<s[c]>>) ELSE NoMatch

\* PATTERNS['first_vowel'] and PATTERNS['last_vowel']: first\s+vowel, last\s+vowel
word_vowel_at(s, i, word) ==
    LET k == KeywordThenSpace(s, i, <<word>>)
        v == SkipSpaces(s, k + 1)
    IN  IF k > 0 /\ LitAt(s, v, <<"v", "o", "w", "e", "l">>) THEN Match(s, i, v + 4, <<>>) ELSE NoMatch

first_vowel_at(s, i) == word_vowel_at(s, i, <<"f", "i", "r", "s", "t">>)

last_vowel_at(s, i) == word_vowel_at(s, i, <<"l", "a", "s", "t">>)

\* re.search(PATTERNS['palindrome'], s): the match at the leftmost position that has one
palindrome_search(s) == LeftmostMatch([i \in 1..Len(s) |-> palindrome_at(s, i)])

\* re.search(PATTERNS['word_count'], s): the match at the leftmost position that has one
word_count_search(s) == LeftmostMatch([i \in 1..Len(s) |-> word_count_at(s, i)])

\* re.search(PATTERNS['length_gt'], s): the match at the leftmost position that has one
length_gt_search(s) == LeftmostMatch([i \in 1..Len(s) |-> length_gt_at(s, i)])

\* re.search(PATTERNS['length_lt'], s): the match at the leftmost position that has one
length_lt_search(s) == LeftmostMatch([i \in 1..Len(s) |-> length_lt_at(s, i)])

\* re.search(PATTERNS['length_eq'], s): the match at the leftmost position that has one
length_eq_search(s) == LeftmostMatch([i \in 1..Len(s) |-> length_eq_at(s, i)])

\* re.search(PATTERNS['contains_char'], s): the match at the leftmost position that has one
contains_char_search(s) == LeftmostMatch([i \in 1..Len(s) |-> contains_char_at(s, i)])

\* re.search(PATTERNS['first_vowel'], s): the match at the leftmost position that has one
first_vowel_search(s) == LeftmostMatch([i \in 1..Len(s) |-> first_vowel_at(s, i)])

\* re.search(PATTERNS['last_vowel'], s): the match at the leftmost position that has one
last_vowel_search(s) == LeftmostMatch([i \in 1..Len(s) |-> last_vowel_at(s, i)])

\* the first run of digits of text that starts at one of the positions at,
\* <<>> when there is none: re.search(r'\d+', text)
FirstDigitsAt(text, at) ==
    IF at = {} THEN <<>> ELSE SubSeq(text, Leftmost(at), SkipDigits(text, Leftmost(at)) - 1)

FirstDigits(text) == FirstDigitsAt(text, {i \in 1..Len(text) : IsDigit(text[i])})

\* the first of words that is a number word, as Optional[int]
FirstNumberWord(words, known) ==
    IF known = {} THEN Absent ELSE Some(NumberOfWord(words[Leftmost(known)]))

\* the words of text.lower().split() looked up in NUMBER_WORDS
NumberWordIn(words) == FirstNumberWord(words, {i \in 1..Len(words) : IsNumberWord(words[i])})

\* extract_number, given the digits found first: Optional[int]
ExtractNumber(text, digits) ==
    IF digits # <<>> THEN Some(int(digits)) ELSE NumberWordIn(split(lower(text)))

extract_number(text) == ExtractNumber(text, FirstDigits(text))

\* the dict entry filters[key] = opt[1] when opt holds a value, no entry otherwise
Entry(key, opt) == [k \in {key : x \in DOMAIN opt} |-> opt[1]]

\* extract_number(match.group(0)) when the pattern matched
NumberOfMatch(query, m) ==
    IF m = NoMatch THEN Absent ELSE extract_number(SubSeq(query, m.start, m.end))

\* int(match.group(1)) + k when the pattern matched
GroupPlus(m, k) == IF m = NoMatch THEN Absent ELSE Some(int(m.g1) + k)

\* if re.search(PATTERNS['palindrome'], query): filters["is_palindrome"] = True
palindrome_rule(query) ==
    Entry("is_palindrome", IF palindrome_search(query) # NoMatch THEN Some(TRUE) ELSE Absent)

\* num = extract_number(word_count_match.group(0));
\* if num is not None: filters["word_count"] = num
word_count_rule(query) ==
    Entry("word_count", NumberOfMatch(query, word_count_search(query)))

\* filters["min_length"] = int(length_gt.group(1)) + 1
length_gt_rule(query) == Entry("min_length", GroupPlus(length_gt_search(query), 1))

\* a bound below zero raised to zero
NonNegative(opt) == IF opt # Absent /\ opt[1] < 0 THEN Some(0) ELSE opt

\* the rule with its negative bound corrected to zero
length_lt_rule_corrected(query) ==
    Entry("max_length", NonNegative(GroupPlus(length_lt_search(query), -1)))

\* filters["max_length"] = int(length_lt.group(1)) - 1
length_lt_rule(query) == Entry("max_length", GroupPlus(length_lt_search(query), -1))

\* filters["min_length"] = length; filters["max_length"] = length
BothLengths(length) == Entry("max_length", length) @@ Entry("min_length", length)

length_eq_rule(query) == BothLengths(GroupPlus(length_eq_search(query), 0))

\* char_match.group(1).lower() when the pattern matched
GroupLower(m) == IF m = NoMatch THEN Absent ELSE Some(lower(m.g1))

\* filters["contains_character"] = char
contains_char_rule(query) ==
    Entry("contains_character", GroupLower(contains_char_search(query)))

\* if first vowel: 'a'; elif last vowel: 'u'
vowel_rule(query) ==
    Entry("contains_character",
          IF first_vowel_search(query) # NoMatch THEN Some(<<"a">>)
          ELSE IF last_vowel_search(query) # NoMatch THEN Some(<<"u">>)
          ELSE Absent)

\* the dict parse_natural_language builds for the lowercased, stripped query:
\* the rules assign in source order, so an entry of a later rule (further
\* left here) replaces that of an earlier one
ParsedFilters(query) ==
    vowel_rule(query) @@ contains_char_rule(query) @@ length_eq_rule(query)
        @@ length_lt_rule(query) @@ length_gt_rule(query) @@ word_count_rule(query)
        @@ palindrome_rule(query)

\* if not filters: raise ValueError, else return filters
ParseResult(filters) ==
    IF DOMAIN filters = {} THEN [ok |-> FALSE, filters |-> <<>>]
    ELSE [ok |-> TRUE, filters |-> filters]

\* parse_natural_language: ok is FALSE when it raises ValueError
parse_natural_language(query) ==
    IF query = <<>> THEN [ok |-> FALSE, filters |-> <<>>]
    ELSE ParseResult(ParsedFilters(strip(lower(query))))

----------------------------------------------------------------------------
(* GET /strings/filter-by-natural-language                                 *)

\* parsed_filters.get(key) for each parameter of filter_strings
ParamsOf(filters) ==
    [k \in FilterKeys |-> IF k \in DOMAIN filters THEN Some(filters[k]) ELSE Absent]

MaxPhrases == 2

\* the pieces queries are made of
Phrases ==
    <<
      <<"s", "t", "r", "i", "n", "g", "s">>,
      <<"s", "i", "n", "g", "l", "e", " ", "w", "o", "r", "d">>,
      <<"t", "w", "o", " ", "w", "o", "r", "d", "s">>,
      <<"3", " ", "w", "o", "r", "d", "s">>,
      <<"S", "h", "o", "r", "t", "e", "r", " ", "t", "h", "a", "n", " ", "0">>,
      <<"l", "e", "s", "s", " ", "t", "h", "a", "n", " ", "0">>,
      <<"s", "h", "o", "r", "t", "e", "r", " ", "t", "h", "a", "n", " ", "5">>,
      <<"l", "o", "n", "g", "e", "r", " ", "t", "h", "a", "n", " ", "5">>,
      <<"l", "o", "n", "g", "e", "r", " ", "t", "h", "a", "n", " ", "f", "i", "v", "e">>,
      <<"e", "x", "a", "c", "t", "l", "y", " ", "4", " ", "c", "h", "a", "r", "a", "c", "t", "e", "r", "s">>,
      <<"c", "o", "n", "t", "a", "i", "n", "i", "n", "g", " ", "t", "h", "e", " ", "l", "e", "t", "t", "e", "r", " ", "Z">>,
      <<"f", "i", "r", "s", "t", " ", "v", "o", "w", "e", "l">>,
      <<"l", "a", "s", "t", " ", "v", "o", "w", "e", "l">>,
      <<"g", "i", "b", "b", "e", "r", "i", "s", "h", " ", "q", "u", "e", "r", "y", " ", "w", "i", "t", "h", " ", "n", "o", " ", "r", "u", "l", "e", "s">>,
      <<"a", "l", "l", " ", "s", "i", "n", "g", "l", "e", " ", "w", "o", "r", "d", " ", "p", "a", "l", "i", "n", "d", "r", "o", "m", "i", "c", " ", "s", "t", "r", "i", "n", "g", "s">>
    >>

\* the phrases ps joined by single spaces
RECURSIVE JoinPhrases(_)
JoinPhrases(ps) ==
    IF ps = <<>> THEN <<>>
    ELSE IF Len(ps) = 1 THEN Phrases[ps[1]]
    ELSE Phrases[ps[1]] \o <<" ">> \o JoinPhrases(Tail(ps))

\* the query strings sent: up to MaxPhrases phrases, the empty query included
Queries ==
    {JoinPhrases(ps) : ps \in UNION {[1..n -> 1..Len(Phrases)] : n \in 0..MaxPhrases}}

\* the value created under SpecNL
NLCreateValues == { <<"B", " ", "b">> }

\* the request under test is fixed at the start
InitNL ==
    /\ InitStore
    /\ flt = NoFilterCall
    /\ an = NoAnalysis
    /\ nl \in {[NoQuery EXCEPT !.query = q] : q \in Queries}

\* the responses of filter_by_natural_language for what the parser returned:
\* its ValueError is answered 400; otherwise filter_strings is called with the
\* parsed filters and its HTTPException, if any, is the response
NLResponses(table, query, parsed) ==
    IF ~parsed.ok
    THEN {[query |-> query, status |-> 400, parsed_filters |-> <<>>, data |-> {}]}
    ELSE {[query |-> query, status |-> out.status, parsed_filters |-> parsed.filters,
           data |-> out.data] : out \in filter_strings(table, ParamsOf(parsed.filters))}

\* filter_by_natural_language
FilterByNaturalLanguage ==
    /\ nl.status = 0
    /\ nl' \in NLResponses(records, nl.query, parse_natural_language(nl.query))
    /\ UNCHANGED <<records, pc, req, obj, status, flt, an>>

\* the response is sent; the same query may be sent again
NLReturn ==
    /\ nl.status # 0
    /\ nl' = [NoQuery EXCEPT !.query = nl.query]
    /\ UNCHANGED <<records, pc, req, obj, status, flt, an>>

NextNL ==
    \/ \E raw \in NLCreateValues : CreateBegin(1, raw)
    \/ CreateCommit(1)
    \/ CreateRefresh(1)
    \/ FilterByNaturalLanguage
    \/ NLReturn

SpecNL == InitNL /\ [][NextNL]_vars

----------------------------------------------------------------------------
(* analyze_string called on its own                                        *)

MaxLen == 3

\* the characters input strings are made of: letters in both cases, a digit,
\* whitespace and punctuation
InputChars == {"a", "A", "b", "1", " ", "!"}

\* "Race, Car!" and "hello"
RaceCar == <<"R", "a", "c", "e", ",", " ", "C", "a", "r", "!">>

Hello == <<"h", "e", "l", "l", "o">>

\* the input strings: every string of up to MaxLen characters, and the two above
AnalyzeValues ==
    UNION {[1..n -> InputChars] : n \in 0..MaxLen} \cup {RaceCar, Hello}

\* the call under test is fixed at the start
InitAnalyze ==
    /\ InitStore
    /\ flt = NoFilterCall
    /\ nl = NoQuery
    /\ an \in {[NoAnalysis EXCEPT !.value = v] : v \in AnalyzeValues}

\* analyze_string(value) returns its dict
AnalyzeString ==
    /\ ~an.done
    /\ an' = [an EXCEPT !.done = TRUE, !.properties = analyze_string(an.value)]
    /\ UNCHANGED <<records, pc, req, obj, status, flt, nl>>

\* the caller has taken the dict; the same call may be made again
AnalyzeReturn ==
    /\ an.done
    /\ an' = [NoAnalysis EXCEPT !.value = an.value]
    /\ UNCHANGED <<records, pc, req, obj, status, flt, nl>>

NextAnalyze ==
    \/ AnalyzeString
    \/ AnalyzeReturn

SpecAnalyze == InitAnalyze /\ [][NextAnalyze]_vars

----------------------------------------------------------------------------
(* Properties of the storage operations                                    *)

Stored(table, value) == \E r \in Rows(table) : r.value = value

\* session p moved in this step
Moved(p) == pc'[p] # pc[p] \/ req'[p] # req[p] \/ status'[p] # status[p]

\* in this step session p took up a create request (validation and lookup)
CreateBeginStep(p) == pc[p] = "idle" /\ Moved(p) /\ req'[p].op = "create"

\* in this step session p's create request ended with a response
CreateEndStep(p) == Moved(p) /\ req'[p].op = "create" /\ pc'[p] = "idle"

\* in this step session p took up a delete request (the lookup)
DeleteBeginStep(p) == pc[p] = "idle" /\ Moved(p) /\ req'[p].op = "delete"

\* C1: in every reachable state, whatever the interleaving of create and
\* delete requests, every row is stored once, and no two rows share a value
\* or a content hash: at most one row per distinct trimmed value.
C1_UniqueValueAndHash ==
    \A r1 \in Rows(records) :
        /\ CopiesIn(r1, records) = 1
        /\ \A r2 \in Rows(records) :
               (r1.value = r2.value \/ r1.sha256_hash = r2.sha256_hash \/ r1.id = r2.id)
                   => r1 = r2

\* C1's case: two rows are stored and a create that raced with another one
\* for the same value was refused at commit
C1_Witness ==
    /\ Cardinality(Rows(records)) >= 2
    /\ \E p, q \in Sessions :
           /\ p # q
           /\ req[p].op = "create" /\ req[q].op = "create"
           /\ strip(req[p].value) = strip(req[q].value)
           /\ status[p] = 201 /\ status[q] = 500

\* C2: of two creates of the same string that both passed the duplicate
\* lookup, the one that commits first stores the row, and the other one,
\* which finds the value stored when it commits, ends with 409 Conflict.
C2_RaceLoserConflict ==
    [][\A p \in Sessions :
           (pc[p] = "commit" /\ pc'[p] # "commit")
               => IF Stored(records, obj[p].value)
                  THEN status'[p] = 409 /\ records' = records
                  ELSE Stored(records', obj[p].value)]_vars

\* C3: a create that ends without success leaves the table as it was; a value
\* that is blank after trimming is answered 422, and a value whose trimmed
\* form is stored when it is looked up is answered 409.
C3_RejectedCreate ==
    [][\A p \in Sessions :
           /\ (CreateEndStep(p) /\ status'[p] # 201) => records' = records
           /\ (CreateBeginStep(p) /\ strip(req'[p].value) = <<>>)
                  => status'[p] = 422 /\ pc'[p] = "idle"
           /\ (CreateBeginStep(p) /\ strip(req'[p].value) # <<>>
                   /\ Stored(records, strip(req'[p].value)))
                  => status'[p] = 409 /\ pc'[p] = "idle"]_vars

\* C3's case: with a row stored, one create was refused as a duplicate of it
\* and one as blank
C3_Witness ==
    \E p, q \in Sessions :
        /\ req[p].op = "create" /\ status[p] = 409 /\ pc[p] = "idle"
        /\ Stored(records, strip(req[p].value))
        /\ req[q].op = "create" /\ status[q] = 422 /\ pc[q] = "idle"
        /\ req[q].value = <<" ">>

\* C4: a delete whose value is not stored when it is looked up is answered 404
\* and changes nothing; one whose value is stored goes on to remove exactly
\* that row and is answered 204, after which the value is not stored (so a
\* second delete of it is answered 404 unless it was created again).
C4_DeleteTwice ==
    [][\A p \in Sessions :
           /\ (DeleteBeginStep(p) /\ ~Stored(records, req'[p].value))
                  => status'[p] = 404 /\ pc'[p] = "idle" /\ records' = records
           /\ (DeleteBeginStep(p) /\ Stored(records, req'[p].value))
                  => pc'[p] = "delete" /\ obj'[p].value = req'[p].value
                         /\ records' = records
           /\ (pc[p] = "delete" /\ pc'[p] = "idle")
                  => /\ status'[p] = 204
                     /\ Rows(records') = Rows(records) \ {obj[p]}
                     /\ ~Stored(records', req[p].value)]_vars

\* C4's case: the same value was deleted twice, once with 204 and once with 404
C4_Witness ==
    \E p, q \in Sessions :
        /\ p # q
        /\ req[p].op = "delete" /\ req[q] = req[p]
        /\ pc[p] = "idle" /\ pc[q] = "idle"
        /\ status[p] = 204 /\ status[q] = 404
        /\ ~Stored(records, req[p].value)

\* every stored row agrees with its value
RowConsistent(r) ==
    /\ r.value # <<>>
    /\ ~IsSpace(r.value[1]) /\ ~IsSpace(r.value[Len(r.value)])
    /\ r.id = r.sha256_hash
    /\ r.sha256_hash = sha256_hexdigest(encode_utf8(r.value))
    /\ r.length = analyze_string(r.value).length
    /\ r.is_palindrome = analyze_string(r.value).is_palindrome
    /\ r.unique_characters = analyze_string(r.value).unique_characters
    /\ r.word_count = analyze_string(r.value).word_count

\* C5: every stored row has a non-empty value with no whitespace at either
\* end, id = sha256_hash = the hash of the value, and the length,
\* is_palindrome, unique_characters and word_count of analyze_string(value);
\* a stored row stays as it is until a delete-by-value request for its value
\* removes it.
C5_RowsConsistentAndImmutable ==
    /\ [](\A r \in Rows(records) : RowConsistent(r))
    /\ [][\A r \in Rows(records) :
              \/ r \in Rows(records')
              \/ /\ \A r2 \in Rows(records') : r2.id # r.id /\ r2.value # r.value
                 /\ \E p \in Sessions :
                        /\ req[p] = [op |-> "delete", value |-> r.value]
                        /\ pc[p] = "delete" /\ pc'[p] = "idle"]_vars

\* C5's case: a row created from a value padded with whitespace is stored
\* while another row has been deleted
C5_Witness ==
    /\ \E p \in Sessions :
           /\ req[p] = [op |-> "create", value |-> <<" ", "a", "b", "c", "\t">>]
           /\ status[p] = 201
           /\ Stored(records, <<"a", "b", "c">>)
    /\ \E q \in Sessions : req[q].op = "delete" /\ status[q] = 204

----------------------------------------------------------------------------
(* Properties of filter_strings                                            *)

\* in this step filter_strings was called and returned or raised
FilterStep == flt.status = 0 /\ flt'.status # 0

\* value contains the character c, case ignored
ContainsIgnoreCase(value, c) == \E i \in 1..Len(value) : LowerChar(value[i]) = LowerChar(c)

\* only contains_character is given, and it is one character
OnlyContainsCharacter(f) ==
    /\ \A k \in FilterKeys \ {"contains_character"} : f[k] = Absent
    /\ f["contains_character"] # Absent
    /\ Len(f["contains_character"][1]) = 1

\* C6: for every single character c, filter_strings with contains_character = c
\* and no other condition returns exactly the stored rows whose value contains
\* c with case ignored (the table is smaller than the page limit).
C6_ContainsCharacter ==
    [][(FilterStep /\ OnlyContainsCharacter(flt.params))
           => /\ flt'.status = 200
              /\ flt'.data =
                     {r \in Rows(records) :
                          ContainsIgnoreCase(r.value, flt.params["contains_character"][1][1])}]_vars

\* C6's round trip: with only "abc" created, contains_character "b" returned
\* exactly that row
C6_Witness ==
    /\ Rows(records) = {NewAnalyzedString(<<"a", "b", "c">>)}
    /\ OnlyContainsCharacter(flt.params)
    /\ flt.params["contains_character"] = Some(<<"b">>)
    /\ flt.status = 200
    /\ flt.data = Rows(records)

\* what the predicate's validation is to refuse
InvalidFilter(f) ==
    \/ \E k \in {"min_length", "max_length", "word_count"} : f[k] # Absent /\ f[k][1] < 0
    \/ f["contains_character"] # Absent /\ Len(f["contains_character"][1]) # 1

\* C7: filter_strings validates before it evaluates: with min_length,
\* max_length or word_count negative, or contains_character present and not
\* exactly one character long (the empty string included), the call fails
\* with 400 and returns no rows.
C7_ValidationFirst ==
    [][(FilterStep /\ InvalidFilter(flt.params))
           => flt'.status = 400 /\ flt'.data = {}]_vars


----------------------------------------------------------------------------
(* Properties of the natural-language filter                               *)

\* the words of the query, lowercased
QueryWords(query) == split(lower(query))

\* the parser returned a dict with filters[key] = v
Parsed(key, v) == key \in DOMAIN nl.parsed_filters /\ nl.parsed_filters[key] = v

\* w is written with digits only
IsDigits(w) == w # <<>> /\ \A i \in 1..Len(w) : IsDigit(w[i])

\* words[i..] reads "shorter than 0" or "less than 0"
ShorterThanZeroAt(words, i) ==
    /\ i + 2 <= Len(words)
    /\ words[i] \in { <<"s", "h", "o", "r", "t", "e", "r">>, <<"l", "e", "s", "s">> }
    /\ words[i + 1] = <<"t", "h", "a", "n">>
    /\ IsDigits(words[i + 2])
    /\ int(words[i + 2]) = 0

ContainsShorterThanZero(words) == \E i \in 1..Len(words) : ShorterThanZeroAt(words, i)

\* C8 as stated: for every query containing "shorter than N" or "less than N"
\* with N = 0 the parser returns max_length = -1 and the natural-language
\* request ends with 400.
C8_ShorterThanZero ==
    (nl.status # 0 /\ ContainsShorterThanZero(QueryWords(nl.query)))
        => Parsed("max_length", -1) /\ nl.status = 400

\* the leftmost "shorter|less than <digits>" of the query has N = 0
LeftmostShorterIsZero(m) == m # NoMatch /\ int(m.g1) = 0

\* the query the patterns are searched in
Searched(query) == strip(lower(query))

\* C8, amended: when the leftmost "shorter|less than <digits>" of the query has
\* N = 0 and the query has no "exactly|precisely|of <digits> characters|letters"
\* phrase, the parser returns max_length = -1 uncorrected and the
\* natural-language request ends with 400 from filter_strings' validation,
\* with no rows.
C8_LeftmostShorterThanZero ==
    (/\ nl.status # 0
     /\ LeftmostShorterIsZero(length_lt_search(Searched(nl.query)))
     /\ length_eq_search(Searched(nl.query)) = NoMatch)
        => Parsed("max_length", -1) /\ nl.status = 400 /\ nl.data = {}

\* C8's case: "two words" and "Shorter than 0" in one query, rows stored, and
\* the request was refused with max_length = -1 among the parsed filters
C8_Witness ==
    /\ nl.status = 400
    /\ Rows(records) # {}
    /\ ContainsShorterThanZero(QueryWords(nl.query))
    /\ Parsed("max_length", -1)
    /\ Parsed("word_count", 2)

\* the number a word-count phrase names with w: digits, "single", or a
\* number-word
IsCount(w) == IsDigits(w) \/ w = <<"s", "i", "n", "g", "l", "e">> \/ IsNumberWord(w)

CountOf(w) ==
    IF IsDigits(w) THEN int(w)
    ELSE IF w = <<"s", "i", "n", "g", "l", "e">> THEN 1
    ELSE NumberOfWord(w)

IsWordOrWords(w) == w \in { <<"w", "o", "r", "d">>, <<"w", "o", "r", "d", "s">> }

\* the word counts the phrases of the query name
WordCountsNamed(words) ==
    {CountOf(words[i]) : i \in {j \in 1..Len(words) - 1 :
                                   IsCount(words[j]) /\ IsWordOrWords(words[j + 1])}}

\* C9: for every query whose word-count phrases ("N word(s)" with N in digits,
\* as a number-word, or "single") name one N, parse_natural_language returns
\* word_count = N; "all single word palindromic strings" parses to exactly
\* {is_palindrome: true, word_count: 1}.
C9_WordCountPhrase ==
    /\ \A n \in 0..20 :
           (nl.status # 0 /\ WordCountsNamed(QueryWords(nl.query)) = {n})
               => Parsed("word_count", n)
    /\ (nl.status # 0 /\ nl.query = Phrases[Len(Phrases)])
           => nl.parsed_filters = [is_palindrome |-> TRUE, word_count |-> 1]

\* one of the rules' phrases starts at words[i]
NamesFilterAt(words, i, n) ==
    \/ words[i] \in { <<"p", "a", "l", "i", "n", "d", "r", "o", "m", "i", "c">>,
                      <<"p", "a", "l", "i", "n", "d", "r", "o", "m", "e">> }
    \/ i + 1 <= n /\ IsCount(words[i]) /\ IsWordOrWords(words[i + 1])
    \/ /\ i + 2 <= n
       /\ words[i] \in { <<"l", "o", "n", "g", "e", "r">>, <<"g", "r", "e", "a", "t", "e", "r">>,
                         <<"m", "o", "r", "e">>, <<"s", "h", "o", "r", "t", "e", "r">>,
                         <<"l", "e", "s", "s">> }
       /\ words[i + 1] = <<"t", "h", "a", "n">>
       /\ IsDigits(words[i + 2]) \/ IsNumberWord(words[i + 2])
    \/ /\ i + 2 <= n
       /\ words[i] \in { <<"e", "x", "a", "c", "t", "l", "y">>,
                         <<"p", "r", "e", "c", "i", "s", "e", "l", "y">>, <<"o", "f">> }
       /\ IsDigits(words[i + 1]) \/ IsNumberWord(words[i + 1])
       /\ words[i + 2] \in { <<"c", "h", "a", "r", "a", "c", "t", "e", "r">>,
                             <<"c", "h", "a", "r", "a", "c", "t", "e", "r", "s">>,
                             <<"l", "e", "t", "t", "e", "r">>,
                             <<"l", "e", "t", "t", "e", "r", "s">> }
    \/ /\ words[i] \in { <<"c", "o", "n", "t", "a", "i", "n", "i", "n", "g">>, <<"w", "i", "t", "h">>,
                         <<"h", "a", "v", "i", "n", "g">>, <<"i", "n", "c", "l", "u", "d", "e", "s">> }
       /\ \E j \in (i + 1)..n :
              /\ Len(words[j]) = 1 /\ IsLetter(words[j][1])
              /\ SubSeq(words, i + 1, j - 1) \in
                     { <<>>, << <<"t", "h", "e">> >>, << <<"l", "e", "t", "t", "e", "r">> >>,
                       << <<"t", "h", "e">>, <<"l", "e", "t", "t", "e", "r">> >> }
    \/ /\ i + 1 <= n
       /\ words[i] \in { <<"f", "i", "r", "s", "t">>, <<"l", "a", "s", "t">> }
       /\ words[i + 1] = <<"v", "o", "w", "e", "l">>

\* the query names a filter
NamesFilter(words) == \E i \in 1..Len(words) : NamesFilterAt(words, i, Len(words))

\* C10: for every query that names no filter, "gibberish query with no rules"
\* among them, parse_natural_language raises ValueError and returns no
\* predicate: the request ends with 400 and no parsed filters.
C10_NoFilterNamed ==
    (nl.status # 0 /\ ~NamesFilter(QueryWords(nl.query)))
        => nl.status = 400 /\ nl.parsed_filters = <<>>


\* w names a number: digits or a number-word
IsNumber(w) == IsDigits(w) \/ IsNumberWord(w)

NumberOf(w) == IF IsDigits(w) THEN int(w) ELSE NumberOfWord(w)

\* words[i..] reads "longer|greater|more than N"
LongerThanAt(words, i) ==
    /\ i + 2 <= Len(words)
    /\ words[i] \in { <<"l", "o", "n", "g", "e", "r">>, <<"g", "r", "e", "a", "t", "e", "r">>,
                      <<"m", "o", "r", "e">> }
    /\ words[i + 1] = <<"t", "h", "a", "n">>
    /\ IsNumber(words[i + 2])

\* the lower bounds N + 1 the "longer|greater|more than N" phrases of the query name
MinLengthsNamed(words) ==
    {NumberOf(words[i + 2]) + 1 : i \in {j \in 1..Len(words) : LongerThanAt(words, j)}}

\* words[i..] reads "exactly|precisely|of N characters|letters"
ExactLengthAt(words, i) ==
    /\ i + 2 <= Len(words)
    /\ words[i] \in { <<"e", "x", "a", "c", "t", "l", "y">>,
                      <<"p", "r", "e", "c", "i", "s", "e", "l", "y">>, <<"o", "f">> }
    /\ IsNumber(words[i + 1])
    /\ words[i + 2] \in { <<"c", "h", "a", "r", "a", "c", "t", "e", "r">>,
                          <<"c", "h", "a", "r", "a", "c", "t", "e", "r", "s">>,
                          <<"l", "e", "t", "t", "e", "r">>,
                          <<"l", "e", "t", "t", "e", "r", "s">> }

NamesExactLength(words) == \E i \in 1..Len(words) : ExactLengthAt(words, i)

\* the parser returned filters[key] = n for the one n of named
ParsedTheOne(key, named) == Cardinality(named) = 1 => \A n \in named : Parsed(key, n)

\* "strings longer than 5"
StringsLongerThan5 ==
    <<"s", "t", "r", "i", "n", "g", "s", " ", "l", "o", "n", "g", "e", "r", " ",
      "t", "h", "a", "n", " ", "5">>

\* C11: for every query whose "longer|greater|more than N" phrases, N in digits
\* or a number-word, name one N and which has no "exactly|precisely|of N
\* characters" phrase, parse_natural_language returns min_length = N + 1;
\* "strings longer than 5" parses to exactly {min_length: 6}.
C11_LongerThan ==
    /\ (nl.status # 0 /\ ~NamesExactLength(QueryWords(nl.query)))
           => ParsedTheOne("min_length", MinLengthsNamed(QueryWords(nl.query)))
    /\ (nl.status # 0 /\ nl.query = StringsLongerThan5)
           => nl.parsed_filters = [min_length |-> 6]

\* the query has the phrase "last vowel"
NamesLastVowel(words) ==
    \E i \in 1..Len(words) - 1 :
        words[i] = <<"l", "a", "s", "t">> /\ words[i + 1] = <<"v", "o", "w", "e", "l">>

\* C12: for every query that contains "last vowel", parse_natural_language
\* returns contains_character = 'u', whatever other phrases ("first vowel",
\* "containing the letter X") the query has.
C12_LastVowel ==
    (nl.status # 0 /\ NamesLastVowel(QueryWords(nl.query)))
        => Parsed("contains_character", <<"u">>)

----------------------------------------------------------------------------
(* Properties of analyze_string                                            *)

\* c is a letter or a digit
IsAlnum(c) == IsLetter(c) \/ IsDigit(c)

\* the reduced form of s: its letters and digits in order, lowercased
RECURSIVE Reduced(_)
Reduced(s) ==
    IF s = <<>> THEN <<>>
    ELSE IF IsAlnum(Head(s)) THEN <<LowerChar(Head(s))>> \o Reduced(Tail(s))
    ELSE Reduced(Tail(s))

\* r reads the same from both ends
ReadsSameBothWays(r) == \A i \in 1..Len(r) : r[i] = r[Len(r) + 1 - i]

IsPalindromeOf(r) == r # <<>> /\ ReadsSameBothWays(r)

\* C13: for every input string analyze_string returns is_palindrome = true
\* exactly when the reduced form (lowercased, every character outside a-z and
\* 0-9 removed) is non-empty and equals its own reverse: never for a string
\* with no alphanumeric character, true for "Race, Car!", false for "hello".
C13_IsPalindrome ==
    an.done =>
        /\ an.properties.is_palindrome = IsPalindromeOf(Reduced(an.value))
        /\ (\A i \in 1..Len(an.value) : ~IsAlnum(an.value[i])) => ~an.properties.is_palindrome
        /\ an.value = RaceCar => an.properties.is_palindrome
        /\ an.value = Hello => ~an.properties.is_palindrome

\* C13's cases: "Race, Car!" was analyzed and is a palindrome
C13_Witness == an.done /\ an.value = RaceCar /\ an.properties.is_palindrome

====
